---- MODULE Spec2Model ----
(***************************************************************************)
(* A model of JsonActionClient (src/src/json_action_client/client.py):     *)
(* one client object, the HTTP session it posts through, and the calls a   *)
(* program can make on it: post_json, login, logout and the with-statement *)
(* (__enter__ / __exit__).  The server and the network are the             *)
(* environment: every POST is answered by a nondeterministically chosen    *)
(* transport exception or HTTP response.                                   *)
(***************************************************************************)
EXTENDS Integers, Sequences, FiniteSets, TLC

(***************************************************************************)
(* Bounds.                                                                 *)
(***************************************************************************)
\* nesting depth of with-blocks on the one client
MaxDepth == 1

(***************************************************************************)
(* Python / JSON values.  A scalar is a record (kind, num, str); bool is a *)
(* numeric kind, as in Python, where False == 0 and True == 1.  A dict is  *)
(* a function whose domain is its set of keys.                             *)
(***************************************************************************)
None == [kind |-> "null", num |-> 0, str |-> ""]
JInt(n) == [kind |-> "int", num |-> n, str |-> ""]
JBool(b) == [kind |-> "bool", num |-> IF b THEN 1 ELSE 0, str |-> ""]
JStr(s) == [kind |-> "str", num |-> 0, str |-> s]
EmptyDict == [k \in {} |-> None]

\* Python truth value of a scalar: None, False, 0 and "" are falsy
Truthy(v) ==
  CASE v.kind = "null" -> FALSE
    [] v.kind \in {"int", "bool"} -> v.num # 0
    [] OTHER -> v.str # ""

\* Python ==  between scalars: numbers (bool included) compare by value,
\* strings by content, None only equals None
PyEq(a, b) ==
  CASE a.kind \in {"int", "bool"} /\ b.kind \in {"int", "bool"} -> a.num = b.num
    [] a.kind = "str" /\ b.kind = "str" -> a.str = b.str
    [] a.kind = "null" /\ b.kind = "null" -> TRUE
    [] OTHER -> FALSE

\* dict.get( key ) and dict.get( key, default )
Get(d, k, default) == IF k \in DOMAIN d THEN d[k] ELSE default

(***************************************************************************)
(* Exceptions.  One record shape for all of them; a field a class does not *)
(* have holds None / EmptyDict / "".                                       *)
(***************************************************************************)
MkExc(type, error_code, error_message, action, response_json, endpoint_url, cause) ==
  [type |-> type, error_code |-> error_code, error_message |-> error_message,
   action |-> action, response_json |-> response_json,
   endpoint_url |-> endpoint_url, cause |-> cause]
PlainExc(type, cause) == MkExc(type, None, None, None, EmptyDict, "", cause)
NoExc == PlainExc("none", "")
\* the builtin exceptions the client raises, and one a with-block raises
RuntimeError == PlainExc("RuntimeError", "")
KeyError == PlainExc("KeyError", "")
ValueError == PlainExc("ValueError", "")

\* JsonActionApiError deriving from Exception directly
ClassBases_ApiDetached(cls) ==
  CASE cls = "JsonActionError" -> {"Exception"}
    [] cls = "JsonActionConnectionError" -> {"JsonActionError"}
    [] cls \in {"JsonActionApiError", "RuntimeError", "KeyError", "ValueError"}
         -> {"Exception"}
    [] OTHER -> {}

\* class JsonActionError( Exception ), class JsonActionConnectionError(
\* JsonActionError ), class JsonActionApiError( JsonActionError ); RuntimeError,
\* KeyError and ValueError are builtins deriving from Exception
ClassBases(cls) ==
  CASE cls = "JsonActionError" -> {"Exception"}
    [] cls = "JsonActionConnectionError" -> {"JsonActionError"}
    [] cls = "JsonActionApiError" -> {"JsonActionError"}
    [] cls \in {"RuntimeError", "KeyError", "ValueError"} -> {"Exception"}
    [] OTHER -> {}

\* the classes of the requests library the except clauses name, with the
\* library's hierarchy: SSLError and ConnectTimeout derive from
\* ConnectionError, ConnectTimeout and ReadTimeout from Timeout
RequestsBases(cls) ==
  CASE cls \in {"ConnectionError", "Timeout", "HTTPError"} -> {"RequestException"}
    [] cls = "SSLError" -> {"ConnectionError"}
    [] cls = "ConnectTimeout" -> {"ConnectionError", "Timeout"}
    [] cls = "ReadTimeout" -> {"Timeout"}
    [] OTHER -> {}

\* issubclass( cls, base ) among the client's exceptions
RECURSIVE Derives(_, _)
Derives(cls, base) ==
  \/ cls = base
  \/ \E b \in ClassBases(cls) : Derives(b, base)

\* isinstance( exc, cls ) for the client's exceptions
IsInstance(e, cls) == Derives(e.type, cls)

\* the match an except clause makes on an exception of the requests library
RECURSIVE Catches(_, _)
Catches(handler, raised) ==
  \/ raised = handler
  \/ \E b \in RequestsBases(raised) : Catches(handler, b)

(***************************************************************************)
(* The requests: the dicts handed to post_json.                            *)
(***************************************************************************)
IdleConnectionTimeoutSeconds == 30

\* the credentials included as soon as one of them is truthy
LoginParams_Either(username, password) ==
  LET keys == (IF Truthy(username) \/ Truthy(password)
                 THEN {"username", "password"} ELSE {})
                \cup {"idleConnectionTimeoutSeconds"}
  IN  [k \in keys |-> CASE k = "username" -> username
                        [] k = "password" -> password
                        [] OTHER -> JInt(IdleConnectionTimeoutSeconds)]

\* params of createSession: the credentials only if both are truthy
LoginParams(username, password) ==
  LET keys == (IF Truthy(username) /\ Truthy(password)
                 THEN {"username", "password"} ELSE {})
                \cup {"idleConnectionTimeoutSeconds"}
  IN  [k \in keys |-> CASE k = "username" -> username
                        [] k = "password" -> password
                        [] OTHER -> JInt(IdleConnectionTimeoutSeconds)]

CreateSession(username, password) ==
  [action |-> JStr("createSession"), api |-> JStr("admin"),
   params |-> LoginParams(username, password), debug |-> JStr("max")]

\* a deleteSession addressed to the db api
DeleteSession_DbApi(stored) ==
  [action |-> JStr("deleteSession"), api |-> JStr("db"), authToken |-> stored]

DeleteSession(stored) ==
  [action |-> JStr("deleteSession"), api |-> JStr("admin"), authToken |-> stored]

\* the dicts a caller posts: an action carrying the stored token, and a dict
\* without an "action" key
ListDatabases(stored) ==
  [action |-> JStr("listDatabases"), api |-> JStr("db"),
   params |-> EmptyDict, authToken |-> stored]
NoActionData == [api |-> JStr("db"), params |-> EmptyDict]
CallerData(stored) == {ListDatabases(stored), NoActionData}

(***************************************************************************)
(* The environment: what one POST can meet.  A reply is either an          *)
(* exception raised by session.post (raises # "") or an HTTP response with *)
(* a status and a JSON object as its body.                                 *)
(***************************************************************************)
TransportErrors == {"ConnectionError", "SSLError", "ConnectTimeout", "ReadTimeout"}
Statuses == {200, 300, 404}
ErrorCodes == {JInt(0), JInt(5), JBool(FALSE)}
ErrorMessages == {JStr("bad creds")}
AuthTokens == {JStr(""), JStr("abc123"), JStr("def456")}

\* the dict with the given keys among errorCode, errorMessage, authToken
Body(keys, ec, em, at) ==
  [k \in keys |-> CASE k = "errorCode" -> ec
                    [] k = "errorMessage" -> em
                    [] OTHER -> at]
\* bodies with any errorCode and either an errorMessage or an authToken
Bodies ==
  { Body(keys, ec, em, at) :
      keys \in {{}, {"errorCode"}, {"errorMessage"}, {"authToken"},
                {"errorCode", "errorMessage"}, {"errorCode", "authToken"}},
      ec \in ErrorCodes, em \in ErrorMessages, at \in AuthTokens }

Raises(cls) == [raises |-> cls, status |-> 0, body |-> EmptyDict]
Response(status, body) == [raises |-> "", status |-> status, body |-> body]
NoReply == Raises("none")
\* the bodies tried with a status other than 200
OtherBodies ==
  { EmptyDict,
    Body({"errorCode", "authToken"}, JInt(0), None, JStr("abc123")),
    Body({"errorCode", "errorMessage"}, JInt(5), JStr("bad creds"), None) }
Replies ==
  {Raises(cls) : cls \in TransportErrors}
    \cup {Response(200, b) : b \in Bodies}
    \cup {Response(st, b) : st \in Statuses \ {200}, b \in OtherBodies}

(***************************************************************************)
(* post_json.  A call's outcome is a record: how it ended (returned or     *)
(* raised), the value or the exception, the log records it emitted, the    *)
(* requests it handed to session.post, and the reply it met.               *)
(***************************************************************************)
Outcome(outcome, value, exc, logs, sent, reply) ==
  [outcome |-> outcome, value |-> value, exc |-> exc,
   logs |-> logs, sent |-> sent, reply |-> reply]
Returned(value, logs, sent, reply) ==
  Outcome("returned", value, NoExc, logs, sent, reply)
Raised(exc, logs, sent, reply) ==
  Outcome("raised", EmptyDict, exc, logs, sent, reply)

\* Response.raise_for_status(): HTTPError for the 4xx and 5xx statuses
RaiseForStatus(status) == 400 <= status /\ status < 600

\* "errorCode" in response_json and response_json['errorCode'] == 0
IsSuccess(response_json) ==
  "errorCode" \in DOMAIN response_json /\ PyEq(response_json["errorCode"], JInt(0))

\* the exception the try block of post_json ends with, "" when it returns
TryRaises(reply) ==
  IF reply.raises # "" THEN reply.raises
  ELSE IF RaiseForStatus(reply.status) THEN "HTTPError"
  ELSE IF IsSuccess(reply.body) THEN ""
  ELSE "JsonActionApiError"

\* error code and error message passed in each other's place
ApiError_Swapped(action, response_json) ==
  MkExc("JsonActionApiError", Get(response_json, "errorMessage", None),
        Get(response_json, "errorCode", None), action, response_json, "", "")

\* raise JsonActionApiError( message, errorCode, errorMessage, action, response_json )
ApiError(action, response_json) ==
  MkExc("JsonActionApiError", Get(response_json, "errorCode", None),
        Get(response_json, "errorMessage", None), action, response_json, "", "")

\* the message passed where the endpoint belongs
ConnectionErrorFor_Message(endpoint, cause) ==
  MkExc("JsonActionConnectionError", None, None, None, EmptyDict,
        "Server connection failed", cause)

\* raise JsonActionConnectionError( message, self.endpoint ) from connection_error
ConnectionErrorFor(endpoint, cause) ==
  MkExc("JsonActionConnectionError", None, None, None, EmptyDict, endpoint, cause)

\* raise JsonActionError( message ) from request_error
RequestErrorFor(cause) == PlainExc("JsonActionError", cause)

\* a second attempt after a connection that could not be established
PostJson_RetriesConnection(endpoint, data, reply) ==
  LET action == Get(data, "action", JStr("unknown"))
      raised == TryRaises(reply)
      posting == <<"debug">>
      sent == <<data>>
  IN  IF raised = "" THEN Returned(reply.body, posting, sent, reply)
      ELSE IF raised = "JsonActionApiError"
        THEN Raised(ApiError(action, reply.body), posting, sent, reply)
      ELSE IF Catches("ConnectionError", raised)
        THEN Raised(ConnectionErrorFor(endpoint, raised),
                    posting \o <<"debug", "error">>, sent \o sent, reply)
      ELSE IF Catches("RequestException", raised)
        THEN Raised(RequestErrorFor(raised),
                    posting \o <<"error", "error">>, sent, reply)
      ELSE Raised(PlainExc(raised, ""), posting, sent, reply)

\* the request body no longer logged in the second handler
PostJson_LogsRequestErrorOnce(endpoint, data, reply) ==
  LET action == Get(data, "action", JStr("unknown"))
      raised == TryRaises(reply)
      posting == <<"debug">>
      sent == <<data>>
  IN  IF raised = "" THEN Returned(reply.body, posting, sent, reply)
      ELSE IF raised = "JsonActionApiError"
        THEN Raised(ApiError(action, reply.body), posting, sent, reply)
      ELSE IF Catches("ConnectionError", raised)
        THEN Raised(ConnectionErrorFor(endpoint, raised),
                    posting \o <<"error">>, sent, reply)
      ELSE IF Catches("RequestException", raised)
        THEN Raised(RequestErrorFor(raised),
                    posting \o <<"error">>, sent, reply)
      ELSE Raised(PlainExc(raised, ""), posting, sent, reply)

\* post_json: one debug record, one call of session.post, then the handlers
PostJson(endpoint, data, reply) ==
  LET action == Get(data, "action", JStr("unknown"))
      raised == TryRaises(reply)
      posting == <<"debug">>
      sent == <<data>>
  IN  IF raised = "" THEN Returned(reply.body, posting, sent, reply)
      ELSE IF raised = "JsonActionApiError"
        THEN Raised(ApiError(action, reply.body), posting, sent, reply)
      ELSE IF Catches("ConnectionError", raised)
        THEN Raised(ConnectionErrorFor(endpoint, raised),
                    posting \o <<"error">>, sent, reply)
      ELSE IF Catches("RequestException", raised)
        THEN Raised(RequestErrorFor(raised),
                    posting \o <<"error", "error">>, sent, reply)
      ELSE Raised(PlainExc(raised, ""), posting, sent, reply)

(***************************************************************************)
(* login, logout, __enter__, __exit__.  Each operator gives the call's     *)
(* outcome and the auth_token the client holds afterwards.                 *)
(***************************************************************************)
After(call, auth_token) == [call |-> call, auth_token |-> auth_token]

\* a token that is kept once one is stored
StoreToken_KeepFirst(auth_token, response) ==
  IF Truthy(auth_token) THEN auth_token ELSE response["authToken"]

\* self.auth_token = response['authToken']
StoreToken(auth_token, response) == response["authToken"]

\* a login that drops the stored token when it fails
Login_ForgetsOnFailure(endpoint, auth_token, username, password, reply) ==
  LET r == PostJson(endpoint, CreateSession(username, password), reply)
  IN  IF r.outcome = "raised" THEN After(r, None)
      ELSE IF "authToken" \notin DOMAIN r.value
        THEN After(Raised(KeyError, r.logs, r.sent, reply), None)
      ELSE After(Returned(None, r.logs, r.sent, reply), StoreToken(auth_token, r.value))

Login(endpoint, auth_token, username, password, reply) ==
  LET r == PostJson(endpoint, CreateSession(username, password), reply)
  IN  IF r.outcome = "raised" THEN After(r, auth_token)
      ELSE IF "authToken" \notin DOMAIN r.value
        THEN After(Raised(KeyError, r.logs, r.sent, reply), auth_token)
      ELSE After(Returned(None, r.logs, r.sent, reply), StoreToken(auth_token, r.value))

\* a logout that forgets the token once the server has answered
Logout_ClearsToken(endpoint, auth_token, reply) ==
  LET r == PostJson(endpoint, DeleteSession(auth_token), reply)
  IN  IF r.outcome = "raised" THEN After(r, auth_token)
      ELSE After(Returned(None, r.logs, r.sent, reply), None)

Logout(endpoint, auth_token, reply) ==
  LET r == PostJson(endpoint, DeleteSession(auth_token), reply)
  IN  IF r.outcome = "raised" THEN After(r, auth_token)
      ELSE After(Returned(None, r.logs, r.sent, reply), auth_token)

\* a guard that lets every client in
MayEnter_Always(auth_token) == TRUE

\* a guard that tests for None instead of truth
MayEnter_NotNone(auth_token) == auth_token # None

\* if not self.auth_token: raise RuntimeError( ... )
MayEnter(auth_token) == Truthy(auth_token)

\* __enter__ returning self, and raising; neither logs nor posts
EnterReturns == Returned(None, <<>>, <<>>, NoReply)
EnterRaises == Raised(RuntimeError, <<>>, <<>>, NoReply)

Enter(auth_token) ==
  IF MayEnter(auth_token)
    THEN After(EnterReturns, auth_token)
    ELSE After(EnterRaises, auth_token)

\* an exit that never logs out
LogsOutOnExit_Never(auth_token) == FALSE

\* if self.auth_token: (the guard of the implicit logout)
LogsOutOnExit(auth_token) == Truthy(auth_token)

\* a handler that swallows the API errors only
Swallowed_ApiOnly(exc) == IsInstance(exc, "JsonActionApiError")

\* except Exception as exception: (the failures of logout that are swallowed)
Swallowed(exc) == IsInstance(exc, "Exception")

\* return False, no logout attempted
ExitWithoutLogout == Returned(JBool(FALSE), <<>>, <<>>, NoReply)

Exit(endpoint, auth_token, reply) ==
  IF LogsOutOnExit(auth_token)
    THEN LET r == Logout(endpoint, auth_token, reply)
         IN  IF r.call.outcome = "raised" /\ ~Swallowed(r.call.exc)
               THEN r
             ELSE IF r.call.outcome = "raised"
               THEN After(Returned(JBool(FALSE), r.call.logs \o <<"warning">>,
                                   r.call.sent, reply), r.auth_token)
             ELSE After(Returned(JBool(FALSE), r.call.logs, r.call.sent, reply),
                        r.auth_token)
    ELSE After(ExitWithoutLogout, auth_token)

\* what the with-statement does with the result of __exit__: an exception of
\* __exit__ replaces the body's, a truthy return value suppresses the body's,
\* otherwise the body's exception (if any) propagates
WithOutcome(exit, body_exc) ==
  IF exit.outcome = "raised" THEN [outcome |-> "raised", exc |-> exit.exc]
  ELSE IF body_exc # NoExc /\ ~Truthy(exit.value)
    THEN [outcome |-> "raised", exc |-> body_exc]
  ELSE [outcome |-> "returned", exc |-> NoExc]

(***************************************************************************)
(* The state: the client's fields, the open with-blocks, and the record of *)
(* the last call made on the client (the caller's view of it).             *)
(***************************************************************************)
VARIABLES
  endpoint,     \* self.endpoint
  description,  \* self.description
  session,      \* self._session: its verify and cert settings
  auth_token,   \* self.auth_token
  depth,        \* number of with-blocks on the client that are open
  result,       \* the last call: operation, arguments, token before, outcome
  granted,      \* the authToken of the response of the last login that returned
  posted,       \* session.post has been called since the client was constructed
  had_token,    \* some login has returned with a non-empty authToken
  reentered     \* the last with-block was entered right after one was left,
                \* and nothing but its exit has been called since

vars ==
  <<endpoint, description, session, auth_token, depth, result, granted,
    posted, had_token, reentered>>

\* the constructor calls tried: endpoint, ca_cert, client_cert, client_pass,
\* description
CtorArgs ==
  { <<"http://127.0.0.1:8080/api", None, None, None, None>>,
    <<"https://127.0.0.1:8444/api", JStr("/FairCom/ca.crt"),
      JStr("/FairCom/client.pem"), None, None>>,
    <<"https://127.0.0.1:8444/api", None, JStr("/FairCom/client.pem"),
      JStr("secret"), JStr("lab")>> }
Usernames == {None, JStr("admin")}
Passwords == {JStr(""), JStr("ADMIN")}

\* requests.Session(), then verify and cert as __init__ sets them
NewSession(ca_cert, client_cert, client_pass) ==
  [verify |-> IF Truthy(ca_cert) THEN ca_cert ELSE JBool(TRUE),
   cert |-> IF Truthy(ca_cert) /\ Truthy(client_cert)
              THEN [file |-> client_cert, pass |-> client_pass]
              ELSE None]

NoArgs == EmptyDict
Call(op, args, before, call, block, scope) ==
  [call |-> call, op |-> op, args |-> args, before |-> before,
   block |-> block, scope |-> scope]
NoScope == [outcome |-> "none", exc |-> NoExc]
NoGrant == [set |-> FALSE, token |-> None]

\* a constructor that asks the server for its databases
InitReturns_ProbesServer == Returned(None, <<>>, <<NoActionData>>, NoReply)

\* __init__ returning: it stores its arguments and allocates the session,
\* neither logs nor posts
InitReturns == Returned(None, <<>>, <<>>, NoReply)

\* session.post has been called by the end of a call
Posted(before, call) == before \/ call.sent # <<>>

Init ==
  /\ \E a \in CtorArgs :
       /\ endpoint = a[1]
       /\ session = NewSession(a[2], a[3], a[4])
       /\ description = a[5]
  /\ auth_token = None
  /\ depth = 0
  /\ result = Call("init", NoArgs, None, InitReturns, NoExc, NoScope)
  /\ granted = NoGrant
  /\ posted = Posted(FALSE, InitReturns)
  /\ had_token = FALSE
  /\ reentered = FALSE

DoPostJson ==
  \E data \in CallerData(auth_token), reply \in Replies :
    \E r \in {PostJson(endpoint, data, reply)} :
        /\ result' = Call("post_json", [data |-> data], auth_token, r,
                          NoExc, NoScope)
        /\ posted' = Posted(posted, r)
        /\ reentered' = FALSE
        /\ UNCHANGED <<endpoint, description, session, auth_token, depth,
                       granted, had_token>>

DoLogin ==
  \E username \in Usernames, password \in Passwords, reply \in Replies :
    \E r \in {Login(endpoint, auth_token, username, password, reply)} :
        /\ result' = Call("login", [username |-> username, password |-> password],
                          auth_token, r.call, NoExc, NoScope)
        /\ auth_token' = r.auth_token
        /\ granted' = IF r.call.outcome = "returned"
                        THEN [set |-> TRUE, token |-> reply.body["authToken"]]
                        ELSE granted
        /\ posted' = Posted(posted, r.call)
        /\ had_token' = IF r.call.outcome = "returned"
                          THEN had_token \/ Truthy(reply.body["authToken"])
                          ELSE had_token
        /\ reentered' = FALSE
        /\ UNCHANGED <<endpoint, description, session, depth>>

DoLogout ==
  \E reply \in Replies :
    \E r \in {Logout(endpoint, auth_token, reply)} :
        /\ result' = Call("logout", NoArgs, auth_token, r.call, NoExc, NoScope)
        /\ auth_token' = r.auth_token
        /\ posted' = Posted(posted, r.call)
        /\ reentered' = FALSE
        /\ UNCHANGED <<endpoint, description, session, depth, granted,
                       had_token>>

\* with client: -- __enter__ is called; the block is open if it returns
DoEnter ==
  /\ depth < MaxDepth
  /\ \E r \in {Enter(auth_token)} :
         /\ result' = Call("enter", NoArgs, auth_token, r.call, NoExc, NoScope)
         /\ auth_token' = r.auth_token
         /\ depth' = IF r.call.outcome = "returned" THEN depth + 1 ELSE depth
         /\ posted' = Posted(posted, r.call)
         /\ reentered' = (result.op = "exit" /\ r.call.outcome = "returned")
  /\ UNCHANGED <<endpoint, description, session, granted, had_token>>

\* the exceptions a with-block can end with: none, one of its own, or the
\* one the last call on the client raised
BodyExcs ==
  {NoExc, ValueError}
    \cup (IF result.call.outcome = "raised" THEN {result.call.exc} ELSE {})

\* the innermost open with-block ends and __exit__ is called
DoExit ==
  /\ depth > 0
  /\ \E body_exc \in BodyExcs, reply \in Replies :
       \E r \in {Exit(endpoint, auth_token, reply)} :
           /\ result' = Call("exit", NoArgs, auth_token, r.call, body_exc,
                             WithOutcome(r.call, body_exc))
           /\ auth_token' = r.auth_token
           /\ posted' = Posted(posted, r.call)
  /\ depth' = depth - 1
  /\ UNCHANGED <<endpoint, description, session, granted, had_token, reentered>>

Next == DoPostJson \/ DoLogin \/ DoLogout \/ DoEnter \/ DoExit

Spec == Init /\ [][Next]_vars

(***************************************************************************)
(* Vocabulary of the properties.                                           *)
(***************************************************************************)
\* the last call ended by raising / by returning
CallRaised == result.call.outcome = "raised"
CallReturned == result.call.outcome = "returned"
\* the reply the last call's POST met, and the one request it sent
LastReply == result.call.reply
SentOne == Len(result.call.sent) = 1
\* the reply is an HTTP response with a 2xx status
SuccessStatus(reply) == reply.raises = "" /\ reply.status \in 200..299
\* a value that is present and not the empty string
NonEmpty(v) == v # None /\ v # JStr("")
\* the names the specification gives the failures
IsConnectionFailure(exc) == exc.type = "JsonActionConnectionError"
IsApiFailure(exc) == exc.type = "JsonActionApiError"
IsPreconditionViolation(exc) == exc.type = "RuntimeError"
IsActionError(exc) == IsInstance(exc, "JsonActionError")
IsRequestFailure(exc) == exc.type = "JsonActionError"
\* the reply is a failure: a transport error, a 4xx or 5xx status, or a body
\* whose errorCode is absent or does not equal 0
ReplyFails(reply) ==
  \/ reply.raises # ""
  \/ reply.status \in 400..599
  \/ "errorCode" \notin DOMAIN reply.body
  \/ ~PyEq(reply.body["errorCode"], JInt(0))
\* the number of log records of a level among the records a call emitted
Count(logs, level) == Cardinality({i \in 1..Len(logs) : logs[i] = level})

(***************************************************************************)
(* C1.  Entering the with-block while no auth token is stored fails with   *)
(* the precondition failure (RuntimeError) and sends no request, in every  *)
(* state in which no login has returned yet, whatever failed logins and    *)
(* post_json calls came before.                                            *)
(***************************************************************************)
C1_EnterWithoutLoginFails ==
  (result.op = "enter" /\ ~granted.set) =>
    /\ result.before = None
    /\ CallRaised
    /\ IsPreconditionViolation(result.call.exc)
    /\ result.call.sent = <<>>
    /\ depth = 0

C1_Witness ==
  /\ result.op = "enter" /\ ~granted.set
  /\ CallRaised /\ result.call.sent = <<>>

(***************************************************************************)
(* C2 as stated.  Leaving the with-block while a token is stored sends     *)
(* exactly one deleteSession request, whether the block raised or not and  *)
(* whether that request succeeds or fails.                                 *)
(***************************************************************************)
C2_Original ==
  (result.op = "exit" /\ result.before # None) =>
    /\ SentOne
    /\ result.call.sent[1]["action"] = JStr("deleteSession")

(***************************************************************************)
(* C2 as amended.  Leaving the with-block sends exactly one deleteSession  *)
(* request when the stored token is truthy (a non-empty string), whether   *)
(* the block raised or not and whether the request succeeds or fails; when *)
(* the stored token is the empty string it sends none.                     *)
(***************************************************************************)
C2_ExitLogsOutOnce ==
  result.op = "exit" =>
    IF NonEmpty(result.before)
      THEN /\ SentOne
           /\ result.call.sent[1]["action"] = JStr("deleteSession")
           /\ result.call.sent[1]["authToken"] = result.before
           /\ LastReply # NoReply
      ELSE result.call.sent = <<>>

\* a block that raised is left and the deleteSession request fails
C2_Witness ==
  /\ result.op = "exit" /\ NonEmpty(result.before)
  /\ result.block # NoExc
  /\ LastReply.raises = "ReadTimeout"
  /\ SentOne

(***************************************************************************)
(* C3.  What the with-statement hands its caller is the outcome of the     *)
(* block: normal completion when the block completed, the block's own      *)
(* exception when it raised, whether the implicit logout succeeded or      *)
(* failed with a connection, request or API failure.                       *)
(***************************************************************************)
C3_ExitKeepsBodyOutcome ==
  result.op = "exit" =>
    /\ result.scope.exc = result.block
    /\ result.scope.outcome = (IF result.block = NoExc THEN "returned" ELSE "raised")
    /\ CallReturned

\* the block raised and the implicit logout failed with an API failure
C3_Witness ==
  /\ result.op = "exit" /\ result.block = ValueError
  /\ SentOne /\ SuccessStatus(LastReply) /\ "errorCode" \notin DOMAIN LastReply.body
  /\ result.scope.outcome = "raised"

\* the block completed and the implicit logout could not connect
C3_WitnessNormal ==
  /\ result.op = "exit" /\ result.block = NoExc
  /\ SentOne /\ LastReply.raises = "ConnectionError"
  /\ result.scope.outcome = "returned"

(***************************************************************************)
(* C4 as stated.  For a response with a success status and a JSON object   *)
(* as body, post_json returns the body unchanged exactly when the body has *)
(* an errorCode whose value is the number 0; for every other body it       *)
(* raises the API failure.                                                 *)
(***************************************************************************)
C4_Original ==
  (result.op = "post_json" /\ SuccessStatus(LastReply)) =>
    IF "errorCode" \in DOMAIN LastReply.body /\ LastReply.body["errorCode"] = JInt(0)
      THEN CallReturned /\ result.call.value = LastReply.body
      ELSE CallRaised /\ IsApiFailure(result.call.exc)

(***************************************************************************)
(* C5.  Every API failure raised by post_json, login or logout carries the *)
(* errorCode and the errorMessage of the response, the action of the       *)
(* request that was sent and the whole response; the code is None when the *)
(* response has no errorCode, the action "unknown" when the request has no *)
(* action key.                                                             *)
(***************************************************************************)
C5_ApiFailurePayload ==
  (result.op \in {"post_json", "login", "logout"} /\ CallRaised
     /\ IsApiFailure(result.call.exc)) =>
    LET e == result.call.exc
        body == LastReply.body
        request == result.call.sent[1]
    IN  /\ SentOne
        /\ e.response_json = body
        /\ IF "errorCode" \in DOMAIN body
             THEN e.error_code = body["errorCode"] ELSE e.error_code = None
        /\ "errorMessage" \in DOMAIN body => e.error_message = body["errorMessage"]
        /\ IF "action" \in DOMAIN request
             THEN e.action = request["action"] ELSE e.action = JStr("unknown")
        /\ result.op = "login" => e.action = JStr("createSession")
        /\ result.op = "logout" => e.action = JStr("deleteSession")

\* login answered {"errorCode": 5, "errorMessage": "bad creds"}
C5_Witness ==
  /\ result.op = "login" /\ CallRaised
  /\ result.call.exc.error_code = JInt(5)
  /\ result.call.exc.error_message = JStr("bad creds")

\* a request without an action answered by a body without an errorCode
C5_WitnessDefaults ==
  /\ result.op = "post_json" /\ CallRaised /\ IsApiFailure(result.call.exc)
  /\ "action" \notin DOMAIN result.args.data
  /\ "errorCode" \notin DOMAIN LastReply.body
  /\ result.call.exc.error_code = None
  /\ result.call.exc.action = JStr("unknown")

(***************************************************************************)
(* C6 as stated.  A timeout, a TLS handshake failure or a non-2xx status   *)
(* makes post_json raise the request failure: an ActionError that is       *)
(* neither the connection failure nor the API failure, and of a class that *)
(* is not the base class itself; a non-2xx status does so whatever the     *)
(* body is.                                                                *)
(***************************************************************************)
C6_Original ==
  (/\ result.op = "post_json"
   /\ \/ LastReply.raises \in {"ReadTimeout", "ConnectTimeout", "SSLError"}
      \/ LastReply.raises = "" /\ ~SuccessStatus(LastReply)) =>
    /\ CallRaised
    /\ IsActionError(result.call.exc)
    /\ ~IsConnectionFailure(result.call.exc)
    /\ ~IsApiFailure(result.call.exc)
    /\ result.call.exc.type # "JsonActionError"

(***************************************************************************)
(* C7.  When the connection cannot be established, post_json, and login    *)
(* and logout through it, raise the connection failure, whose endpoint is  *)
(* the endpoint the client was constructed with and whose cause is the     *)
(* transport error.                                                        *)
(***************************************************************************)
C7_ConnectionFailurePayload ==
  (result.op \in {"post_json", "login", "logout"}
     /\ LastReply.raises = "ConnectionError") =>
    /\ CallRaised
    /\ IsConnectionFailure(result.call.exc)
    /\ result.call.exc.endpoint_url = endpoint
    /\ result.call.exc.endpoint_url \in {a[1] : a \in CtorArgs}
    /\ result.call.exc.cause = "ConnectionError"

\* logout meets a refused connection
C7_Witness ==
  /\ result.op = "logout" /\ LastReply.raises = "ConnectionError"
  /\ CallRaised /\ result.call.exc.endpoint_url = "https://127.0.0.1:8444/api"

(***************************************************************************)
(* C8 as stated.  Every connection, request, API and precondition failure  *)
(* raised by scope entry, post_json, login or logout is an ActionError.    *)
(***************************************************************************)
C8_Original ==
  (result.op \in {"enter", "post_json", "login", "logout"} /\ CallRaised
     /\ result.call.exc.type # "KeyError") =>
    IsActionError(result.call.exc)

(***************************************************************************)
(* C8 as amended.  Every failure post_json raises for a transport error,   *)
(* an HTTP error status or an API error (directly, or through login or     *)
(* logout) is an ActionError; the precondition failure of scope entry is a *)
(* RuntimeError, which is not an ActionError.                              *)
(***************************************************************************)
C8_ActionErrorKinds ==
  /\ (result.op \in {"post_json", "login", "logout"} /\ CallRaised
        /\ result.call.exc.type # "KeyError") =>
       IsActionError(result.call.exc)
  /\ (result.op = "enter" /\ CallRaised) =>
       /\ IsPreconditionViolation(result.call.exc)
       /\ ~IsActionError(result.call.exc)
       /\ IsInstance(result.call.exc, "Exception")

\* login is answered by an API error
C8_Witness ==
  /\ result.op = "login" /\ CallRaised /\ IsApiFailure(result.call.exc)
  /\ IsActionError(result.call.exc)

\* scope entry is refused
C8_WitnessEnter == result.op = "enter" /\ CallRaised /\ granted.set

C9_WitnessBoth ==
  /\ result.op = "login"
  /\ result.args.username = JStr("admin") /\ result.args.password = JStr("ADMIN")
  /\ "password" \in DOMAIN result.call.sent[1]["params"]

(***************************************************************************)
(* C10.  When login returns, the stored auth token is the authToken of the *)
(* createSession response, and from then on the stored token is the        *)
(* authToken of the response of the most recent login that returned.       *)
(***************************************************************************)
C10_TokenIsLastGranted ==
  /\ (result.op = "login" /\ CallReturned) =>
       /\ "authToken" \in DOMAIN LastReply.body
       /\ auth_token = LastReply.body["authToken"]
  /\ granted.set => auth_token = granted.token

\* a second login returns with another token than the one stored before
C10_Witness ==
  /\ result.op = "login" /\ CallReturned
  /\ result.before = JStr("abc123") /\ auth_token = JStr("def456")

(***************************************************************************)
(* C11.  The stored auth token is changed only by a login that returns:    *)
(* post_json, logout (returning or raising), scope entry and scope exit    *)
(* leave it as it was before the call, so after a logout that returned the *)
(* token is still the one stored by the last login that returned.          *)
(***************************************************************************)
C11_TokenChangedOnlyByLogin ==
  /\ result.op \in {"post_json", "logout", "enter", "exit"} =>
       auth_token = result.before
  /\ (result.op = "logout" /\ CallReturned /\ granted.set) =>
       auth_token = granted.token
  /\ ~granted.set => auth_token = None

\* a logout the server accepted, the token still stored
C11_Witness ==
  /\ result.op = "logout" /\ CallReturned
  /\ granted.set /\ auth_token = JStr("abc123")
  /\ result.call.sent[1]["authToken"] = JStr("abc123")

\* a logout that failed, the token still stored
C11_WitnessFailed ==
  /\ result.op = "logout" /\ CallRaised /\ auth_token = JStr("def456")

(***************************************************************************)
(* C12.  No retries: every call of post_json, login or logout hands        *)
(* exactly one request to session.post, whatever the outcome; scope exit   *)
(* hands it at most one and scope entry none; and when the reply is a      *)
(* failure the call raises after that single attempt.                      *)
(***************************************************************************)
C12_NoRetry ==
  /\ result.op \in {"post_json", "login", "logout"} =>
       /\ SentOne
       /\ LastReply # NoReply
       /\ ReplyFails(LastReply) => CallRaised
  /\ result.op = "post_json" => result.call.sent = <<result.args.data>>
  /\ result.op = "exit" => Len(result.call.sent) <= 1
  /\ result.op \in {"init", "enter"} => result.call.sent = <<>>

\* a login that could not connect: one attempt, then the connection failure
C12_Witness ==
  /\ result.op = "login" /\ LastReply.raises = "ConnectionError"
  /\ CallRaised /\ IsConnectionFailure(result.call.exc) /\ SentOne

\* a post_json answered by an API error: one attempt
C12_WitnessApi ==
  /\ result.op = "post_json" /\ CallRaised /\ IsApiFailure(result.call.exc)
  /\ SentOne

(***************************************************************************)
(* C13 as stated.  Every connection, request, API and precondition failure *)
(* the client raises is logged exactly once at error severity; the failure *)
(* of the implicit logout at scope exit is logged at warning severity.     *)
(***************************************************************************)
C13_Original ==
  /\ (result.op \in {"enter", "post_json", "login", "logout"} /\ CallRaised
        /\ result.call.exc.type # "KeyError") =>
       Count(result.call.logs, "error") = 1
  /\ (result.op = "exit" /\ SentOne /\ ReplyFails(LastReply)) =>
       Count(result.call.logs, "warning") = 1

(***************************************************************************)
(* C13 as amended.  Before it propagates, a connection failure is logged   *)
(* once at error severity and a request failure twice (the error, then the *)
(* request); an API failure and the precondition failure are raised        *)
(* without any record at error or warning severity.  The failure of the    *)
(* implicit logout at scope exit is logged once more, at warning severity, *)
(* after the records post_json emitted for it; no other call logs a        *)
(* warning.                                                                *)
(***************************************************************************)
C13_ErrorLogging ==
  /\ (result.op \in {"post_json", "login", "logout"} /\ CallRaised) =>
       /\ IsConnectionFailure(result.call.exc) =>
            result.call.logs = <<"debug", "error">>
       /\ IsRequestFailure(result.call.exc) =>
            result.call.logs = <<"debug", "error", "error">>
       /\ IsApiFailure(result.call.exc) => result.call.logs = <<"debug">>
  /\ (result.op = "enter" /\ CallRaised) => result.call.logs = <<>>
  /\ result.op # "exit" => Count(result.call.logs, "warning") = 0
  /\ result.op = "exit" =>
       IF SentOne /\ ReplyFails(LastReply)
         THEN /\ Count(result.call.logs, "warning") = 1
              /\ result.call.logs[Len(result.call.logs)] = "warning"
              /\ Count(result.call.logs, "error")
                   = (IF Catches("ConnectionError", LastReply.raises) THEN 1
                      ELSE IF LastReply.raises = "" /\ LastReply.status < 400
                        THEN 0 ELSE 2)
         ELSE /\ Count(result.call.logs, "warning") = 0
              /\ Count(result.call.logs, "error") = 0

\* a read timeout in post_json: two records at error severity
C13_Witness ==
  /\ result.op = "post_json" /\ LastReply.raises = "ReadTimeout"
  /\ CallRaised /\ Count(result.call.logs, "error") = 2

\* the implicit logout is refused by the server: a warning, no error record
C13_WitnessExit ==
  /\ result.op = "exit" /\ SentOne /\ SuccessStatus(LastReply)
  /\ ReplyFails(LastReply)
  /\ result.call.logs = <<"debug", "warning">>

(***************************************************************************)
(* C14.  Constructing a client, with or without ca_cert, client_cert and   *)
(* client_pass, posts nothing and leaves the client without auth token;    *)
(* session.post is not called until post_json, login or logout is called.  *)
(***************************************************************************)
C14_ConstructionIsOffline ==
  /\ result.op = "init" =>
       /\ ~posted
       /\ result.call.sent = <<>>
       /\ auth_token = None
       /\ depth = 0
  /\ ~posted => result.op \in {"init", "enter"} /\ auth_token = None
  /\ result.op \in {"post_json", "login", "logout"} => posted

\* a client constructed with a CA certificate and a client certificate, and
\* a scope entry refused: still nothing posted
C14_Witness ==
  /\ result.op = "enter" /\ CallRaised
  /\ ~posted /\ auth_token = None
  /\ session.verify = JStr("/FairCom/ca.crt")
  /\ session.cert # None

\* a client just constructed, without certificates
C14_WitnessPlain ==
  /\ result.op = "init" /\ ~posted /\ auth_token = None
  /\ session.verify = JBool(TRUE) /\ session.cert = None

(***************************************************************************)
(* C15.  A login that raises leaves the stored auth token as it was before *)
(* the call: None if no login has returned yet, the token of the last      *)
(* login that returned otherwise.  This holds for the connection, request  *)
(* and API failures of post_json, and for a response with errorCode 0 and  *)
(* no authToken key, for which login raises KeyError.                      *)
(***************************************************************************)
C15_FailedLoginKeepsToken ==
  /\ (result.op = "login" /\ CallRaised) =>
       /\ auth_token = result.before
       /\ auth_token = (IF granted.set THEN granted.token ELSE None)
       /\ \/ IsConnectionFailure(result.call.exc)
          \/ IsRequestFailure(result.call.exc)
          \/ IsApiFailure(result.call.exc)
          \/ result.call.exc = KeyError
  /\ (/\ result.op = "login" /\ SuccessStatus(LastReply)
      /\ "errorCode" \in DOMAIN LastReply.body
      /\ LastReply.body["errorCode"] = JInt(0)
      /\ "authToken" \notin DOMAIN LastReply.body) =>
       /\ CallRaised
       /\ result.call.exc = KeyError
       /\ auth_token = result.before

\* a second login answered {"errorCode": 0}: KeyError, the first token kept
C15_Witness ==
  /\ result.op = "login" /\ CallRaised /\ result.call.exc = KeyError
  /\ LastReply.body["errorCode"] = JInt(0)
  /\ result.before = JStr("abc123") /\ auth_token = JStr("abc123")

\* a first login that times out: still no token
C15_WitnessNone ==
  /\ result.op = "login" /\ CallRaised /\ IsRequestFailure(result.call.exc)
  /\ ~granted.set /\ auth_token = None

(***************************************************************************)
(* C16 as stated.  Scope entry succeeds exactly when some earlier login    *)
(* has returned with a non-empty token.                                    *)
(***************************************************************************)
C16_Original ==
  result.op = "enter" => (CallReturned <=> had_token)

(***************************************************************************)
(* C16 as amended.  Scope entry succeeds exactly when the most recent      *)
(* login that returned stored a non-empty token, whatever logouts and      *)
(* scope exits happened since; a scope entered right after another was     *)
(* left, with no login between, is entered as well, and its exit sends a   *)
(* deleteSession request carrying the same token again.                    *)
(***************************************************************************)
C16_EnterNeedsLastToken ==
  /\ result.op = "enter" =>
       (CallReturned <=> (granted.set /\ NonEmpty(granted.token)))
  /\ reentered =>
       /\ result.op \in {"enter", "exit"}
       /\ NonEmpty(granted.token) /\ auth_token = granted.token
  /\ (result.op = "exit" /\ reentered) =>
       /\ SentOne
       /\ result.call.sent[1]["action"] = JStr("deleteSession")
       /\ result.call.sent[1]["authToken"] = granted.token

\* the second scope on one login is left: deleteSession with the same token
C16_Witness ==
  /\ result.op = "exit" /\ reentered
  /\ result.call.sent[1]["authToken"] = JStr("def456")
  /\ SuccessStatus(LastReply) /\ ~ReplyFails(LastReply)

\* the second scope on one login is entered
C16_WitnessEntry ==
  /\ result.op = "enter" /\ reentered /\ CallReturned /\ depth = 1

(***************************************************************************)
(* C17.  Every call of logout sends one request, deleteSession of api      *)
(* "admin", whose authToken is the token stored when logout was called;    *)
(* logout tests nothing first, so on a client without token it sends the   *)
(* request with authToken None (null) and fails only if the reply does.    *)
(***************************************************************************)
C17_LogoutRequest ==
  result.op = "logout" =>
    /\ SentOne
    /\ DOMAIN result.call.sent[1] = {"api", "action", "authToken"}
    /\ result.call.sent[1]["api"] = JStr("admin")
    /\ result.call.sent[1]["action"] = JStr("deleteSession")
    /\ result.call.sent[1]["authToken"] = result.before
    /\ LastReply # NoReply
    /\ CallRaised <=> ReplyFails(LastReply)

\* logout on a client that never logged in, accepted by the server
C17_Witness ==
  /\ result.op = "logout" /\ result.before = None /\ ~granted.set
  /\ SentOne /\ result.call.sent[1]["authToken"] = None
  /\ CallReturned

====
